---- MODULE Spec2Model ----
(***************************************************************************)
(* Model of the collabnotes note controller                                *)
(* (backend/src/controllers/noteController.js) and of the Dashboard page   *)
(* of its client (frontend/src/pages/Dashboard.jsx).                       *)
(*                                                                         *)
(* The store is the Note collection.  Every handler is an async function:  *)
(* each await on the store is a point where other requests interleave, so  *)
(* a handler that reads a note and later writes it is two actions, with    *)
(* the handler's locals kept in the bag req between them.                  *)
(***************************************************************************)
EXTENDS Integers, Sequences, FiniteSets, Bags, TLC

(* ------------------------------ bounds --------------------------------- *)
\* notes ever created in one run of Spec
MaxNotes == 1
\* requests in flight at the same time
MaxReq == 2
\* largest value of the clock
MaxTime == 1
\* longest collaborators list the runs build
MaxCollab == 2
\* notes in a listed store
MaxListNotes == 3
\* largest page number and page size requested
MaxPage == 3
MaxLimit == 2

(* ------------------------------ values --------------------------------- *)
Users == {"A", "B", "C"}
\* the users who create notes in the runs explored (users are symmetric)
Creators == {"A"}
Email(u) == IF u = "A" THEN "a@x" ELSE IF u = "B" THEN "b@x" ELSE "c@x"
Emails == {Email(u) : u \in Users} \cup {"nobody@x"}
NoUser == "no-user"
Undefined == "undefined"
TitleInputs == {Undefined, "t2"}
ContentInputs == {Undefined, "c2"}
PermissionInputs == {"read", "write", "admin"}
NoteIds == 1..MaxNotes

VARIABLES
  notes,     \* the Note collection: a function from the ids stored to documents
  nextId,    \* the id the next created note gets
  now,       \* the clock read by new Date()
  req,       \* the bag of handlers suspended at an await, each with its locals
  resp,      \* the response sent by the last step ("none" when it sent none)
  query,     \* the listing under way: the user, the raw limit, the archived flag
  pages,     \* the getNotes responses received for it, by page number
  dashboard  \* the state of the Dashboard component of the user's browser

listVars == <<query, pages>>
vars == <<notes, nextId, now, req, resp, query, pages, dashboard>>

(* ------------------------------ helpers -------------------------------- *)
Handler == [pc |-> "none", user |-> NoUser, id |-> 0, title |-> Undefined,
         content |-> Undefined, perm |-> "none", target |-> NoUser,
         permission |-> "none", mode |-> "none", idx |-> 0, v |-> 0, ts |-> 0]

NoResp == [op |-> "none", status |-> 0, user |-> NoUser, id |-> 0, title |-> Undefined,
           perm |-> "none", target |-> NoUser, excluded |-> NoUser,
           notified |-> FALSE, notifyFailed |-> FALSE, persisted |-> FALSE]

Response(op, status, u, id) ==
  [NoResp EXCEPT !.op = op, !.status = status, !.user = u, !.id = id]

\* Note.findById: the id resolves iff a document with that id is stored
Exists(id) == id \in DOMAIN notes

\* note.collaborators.find(c => c.userId._id.equals(user)): the index of the
\* first entry for the user, 0 when there is none
FindCollaborator(note, u) ==
  LET hits == {i \in 1..Len(note.collaborators) : note.collaborators[i].userId = u}
  IN  IF hits = {} THEN 0 ELSE CHOOSE i \in hits : \A j \in hits : i <= j

\* a creator check that also lets a write collaborator through
isCreatorOrWriter(note, u) ==
  \/ note.createdBy = u
  \/ \E i \in 1..Len(note.collaborators) :
       note.collaborators[i].userId = u /\ note.collaborators[i].permission = "write"

\* note.createdBy._id.equals(req.user._id)
isCreator(note, u) == note.createdBy = u

\* an access check that forgets read-only collaborators
hasAccessWriteOnly(note, u) ==
  \/ isCreator(note, u)
  \/ \E i \in 1..Len(note.collaborators) :
       note.collaborators[i].userId = u /\ note.collaborators[i].permission = "write"

\* getNote: hasAccess = isCreator || collaborator
hasAccess(note, u) == isCreator(note, u) \/ FindCollaborator(note, u) # 0

\* User.findOne({ email })
FindUserByEmail(email) ==
  IF \E u \in Users : Email(u) = email
    THEN CHOOSE u \in Users : Email(u) = email
    ELSE NoUser

\* notifyCollaborators(noteId, message, excludedUserId) (socket/handler.js): the
\* users a notification reaches, given the users watching the note
notifyCollaborators(watchers, excludedUserId) == watchers \ {excludedUserId}

\* whether the call to notifyCollaborators throws
NotifyThrows == {FALSE, TRUE}

\* String.prototype.trim, for strings padded with spaces
RECURSIVE TrimStart(_)
TrimStart(s) ==
  IF Len(s) > 0 /\ SubSeq(s, 1, 1) = " " THEN TrimStart(SubSeq(s, 2, Len(s))) ELSE s

RECURSIVE TrimEnd(_)
TrimEnd(s) ==
  IF Len(s) > 0 /\ SubSeq(s, Len(s), Len(s)) = " " THEN TrimEnd(SubSeq(s, 1, Len(s) - 1)) ELSE s

Trim(s) == TrimEnd(TrimStart(s))

\* useState(null) of pagination: currentPage 0 stands for null
NoPagination ==
  [currentPage |-> 0, totalPages |-> 0, totalNotes |-> 0,
   hasNextPage |-> FALSE, hasPrevPage |-> FALSE]

\* the Dashboard before it is mounted: the initial values of its useState and
\* useRef hooks and of the notes slice (notes, loading), no request in flight
\* (fetches, and orphaned for the fetches of an instance since unmounted;
\* newNote), no toast shown
DashboardState ==
  [mounted |-> FALSE, page |-> 1, notes |-> <<>>, pagination |-> NoPagination,
   loading |-> FALSE, isFetching |-> FALSE, initialFetchDone |-> FALSE,
   pageLoading |-> TRUE, fetches |-> EmptyBag, orphaned |-> EmptyBag,
   isSubmitting |-> FALSE, newNote |-> [title |-> "", content |-> ""],
   toast |-> "none"]

(* ------------------------------- Init ---------------------------------- *)
Init ==
  /\ notes = <<>>
  /\ nextId = 1
  /\ now = 0
  /\ req = EmptyBag
  /\ resp = NoResp
  /\ query = [user |-> NoUser, limit |-> 0, showArchived |-> FALSE]
  /\ pages = <<>>
  /\ dashboard = DashboardState

(* ------------------------------ actions -------------------------------- *)
\* the clock advances between any two steps, or does not
Tick ==
  /\ now < MaxTime
  /\ now' = now + 1
  /\ resp' = NoResp
  /\ UNCHANGED <<notes, nextId, req, listVars, dashboard>>

\* getNote: one read of the store, then the access check and the response
getNote(u, id) ==
  /\ resp' =
       IF ~Exists(id) THEN Response("getNote", 404, u, id)
       ELSE IF ~hasAccess(notes[id], u) THEN Response("getNote", 403, u, id)
       ELSE [Response("getNote", 200, u, id) EXCEPT
               !.perm = IF isCreator(notes[id], u) THEN "write"
                        ELSE notes[id].collaborators[FindCollaborator(notes[id], u)].permission]
  /\ UNCHANGED <<notes, nextId, now, req, listVars, dashboard>>

\* Note schema (models/Note.js): title is required and not empty after
\* trimming; any other document is rejected by save() with a validation error
SchemaValid(title) == title # Undefined /\ Trim(title) # ""

\* new Note({title, content, createdBy}) with the schema's defaults
NewNote(u, title, content, t) ==
  [title |-> title, content |-> content, createdBy |-> u, collaborators |-> <<>>,
   isArchived |-> FALSE, lastUpdated |-> t, v |-> 0]

\* createNote's try block and its catch: save() either throws (caught: 500) or
\* inserts the document (201)
createNoteSave(u, title, content) ==
  IF ~SchemaValid(title)
    THEN /\ resp' = [Response("createNote", 500, u, 0) EXCEPT !.title = title]
         /\ UNCHANGED <<notes, nextId>>
    ELSE /\ nextId <= MaxNotes
         /\ notes' = notes @@ (nextId :> NewNote(u, title, content, now))
         /\ nextId' = nextId + 1
         /\ resp' = [Response("createNote", 201, u, nextId) EXCEPT
                       !.title = title, !.persisted = TRUE]

\* createNote, requested by any client of the API
createNote(u, title, content) ==
  /\ createNoteSave(u, title, content)
  /\ UNCHANGED <<now, req, listVars, dashboard>>

\* updateNote: canWrite = isCreator || (collaborator && collaborator.permission === 'write')
canWrite(note, u) ==
  \/ isCreator(note, u)
  \/ /\ FindCollaborator(note, u) # 0
     /\ note.collaborators[FindCollaborator(note, u)].permission = "write"

\* updateNote up to its second await: findById, the permission check, the
\* update fields and their timestamp
updateNoteRead(u, id, title, content) ==
  /\ BagCardinality(req) < MaxReq
  /\ IF ~Exists(id)
       THEN /\ resp' = Response("updateNote", 404, u, id)
            /\ UNCHANGED req
       ELSE IF ~canWrite(notes[id], u)
       THEN /\ resp' = Response("updateNote", 403, u, id)
            /\ UNCHANGED req
       ELSE /\ resp' = NoResp
            /\ req' = req (+) SetToBag({
                 [Handler EXCEPT !.pc = "updWrite", !.user = u, !.id = id,
                    !.title = title, !.content = content, !.ts = now,
                    !.perm = IF FindCollaborator(notes[id], u) = 0 THEN "none"
                             ELSE notes[id].collaborators[FindCollaborator(notes[id], u)].permission]})
  /\ UNCHANGED <<notes, nextId, now, listVars, dashboard>>

\* an update that writes every field of the body, supplied or not, and stamps
\* lastUpdated only when a field was supplied
SetFieldsAll(note, title, content, ts) ==
  [note EXCEPT !.title = title,
               !.content = content,
               !.lastUpdated = IF title # Undefined \/ content # Undefined THEN ts ELSE @]

\* { $set: updateFields }: only the fields that are provided, and lastUpdated
SetFields(note, title, content, ts) ==
  [note EXCEPT !.title = IF title # Undefined THEN title ELSE @,
               !.content = IF content # Undefined THEN content ELSE @,
               !.lastUpdated = ts]

\* updateNote from findByIdAndUpdate on: the store applies the update (or finds
\* no document: updatedNote is null and toObject() throws), then the handler
\* calls notifyCollaborators inside the try block and answers
updateNoteWrite(r, notifyThrows) ==
  /\ BagIn(r, req)
  /\ r.pc = "updWrite"
  /\ IF ~Exists(r.id)
       THEN /\ resp' = Response("updateNote", 500, r.user, r.id)
            /\ UNCHANGED notes
       ELSE /\ notes' = [notes EXCEPT ![r.id] = SetFields(@, r.title, r.content, r.ts)]
            /\ resp' = [Response("updateNote", IF notifyThrows THEN 500 ELSE 200, r.user, r.id)
                          EXCEPT !.persisted = TRUE,
                                 !.notified = ~notifyThrows,
                                 !.notifyFailed = notifyThrows,
                                 !.excluded = r.user,
                                 !.perm = IF isCreator(notes[r.id], r.user) THEN "write"
                                          ELSE IF r.perm # "none" THEN r.perm ELSE "read"]
  /\ req' = req (-) SetToBag({r})
  /\ UNCHANGED <<nextId, now, listVars, dashboard>>

\* deleteNote up to its second await: findById and the creator check
deleteNoteRead(u, id) ==
  /\ BagCardinality(req) < MaxReq
  /\ IF ~Exists(id)
       THEN /\ resp' = Response("deleteNote", 404, u, id)
            /\ UNCHANGED req
       ELSE IF ~isCreator(notes[id], u)
       THEN /\ resp' = Response("deleteNote", 403, u, id)
            /\ UNCHANGED req
       ELSE /\ resp' = NoResp
            /\ req' = req (+) SetToBag({[Handler EXCEPT !.pc = "delWrite", !.user = u, !.id = id]})
  /\ UNCHANGED <<notes, nextId, now, listVars, dashboard>>

\* note.deleteOne() and the answer; deleting a document already gone is no error
deleteNoteWrite(r) ==
  /\ BagIn(r, req)
  /\ r.pc = "delWrite"
  /\ notes' = [i \in DOMAIN notes \ {r.id} |-> notes[i]]
  /\ resp' = [Response("deleteNote", 200, r.user, r.id) EXCEPT !.persisted = TRUE]
  /\ req' = req (-) SetToBag({r})
  /\ UNCHANGED <<nextId, now, listVars, dashboard>>

\* shareNote's first check: an unknown permission is answered 400 before any read
shareNoteInvalid(u, id, email, permission) ==
  /\ permission \notin {"read", "write"}
  /\ resp' = Response("shareNote", 400, u, id)
  /\ UNCHANGED <<notes, nextId, now, req, listVars, dashboard>>

\* share requests suspended before save() that will push an entry onto the note
PendingPushes(id) ==
  LET pushing == {r \in BagToSet(req) : r.pc = "shrSave" /\ r.id = id /\ r.mode = "push"}
      RECURSIVE Count(_)
      Count(S) == IF S = {} THEN 0
                  ELSE LET r == CHOOSE x \in S : TRUE IN CopiesIn(r, req) + Count(S \ {r})
  IN  Count(pushing)

\* shareNote up to save(): findById, the creator check, User.findOne, then the
\* find-or-push on the document in memory.  A push is kept as the array
\* operation save() will send; a changed permission as the positional $set of
\* collaborators.<idx>.permission together with the version the document was
\* loaded at; an unchanged permission leaves the document unmodified.
shareNoteRead(u, id, email, permission) ==
  /\ BagCardinality(req) < MaxReq
  /\ permission \in {"read", "write"}
  /\ IF ~Exists(id)
       THEN /\ resp' = Response("shareNote", 404, u, id)
            /\ UNCHANGED req
       ELSE IF ~isCreator(notes[id], u)
       THEN /\ resp' = Response("shareNote", 403, u, id)
            /\ UNCHANGED req
       ELSE IF FindUserByEmail(email) = NoUser
       THEN /\ resp' = Response("shareNote", 404, u, id)
            /\ UNCHANGED req
       ELSE LET collaborator == FindUserByEmail(email)
                existing == FindCollaborator(notes[id], collaborator)
            IN  /\ existing = 0 => Len(notes[id].collaborators) + PendingPushes(id) < MaxCollab
                /\ resp' = NoResp
                /\ req' = req (+) SetToBag({
                     [Handler EXCEPT !.pc = "shrSave", !.user = u, !.id = id,
                        !.target = collaborator, !.permission = permission,
                        !.idx = existing, !.v = notes[id].v,
                        !.mode = IF existing = 0 THEN "push"
                                 ELSE IF notes[id].collaborators[existing].permission = permission
                                 THEN "none" ELSE "set"]})
  /\ UNCHANGED <<notes, nextId, now, listVars, dashboard>>

\* note.save() of a loaded document sends only what was modified:
\*   push  -> $push onto the stored array, and the version key is incremented;
\*   set   -> $set of collaborators.<idx>.permission where the version key still
\*            has the loaded value (no document matches otherwise: VersionError);
\*   none  -> nothing to write.
\* "conflict" stands for the error save() throws.
Save(note, r) ==
  IF r.mode = "push"
    THEN [note EXCEPT !.collaborators = Append(@, [userId |-> r.target, permission |-> r.permission]),
                      !.v = @ + 1]
  ELSE IF r.mode = "set"
    THEN [note EXCEPT !.collaborators[r.idx].permission = r.permission]
  ELSE note

SaveThrows(id, r) == ~Exists(id) \/ (r.mode = "set" /\ notes[id].v # r.v)

\* shareNote from save() on: the write, then notifyCollaborators(note._id, message,
\* collaborator._id) inside the try block, then the answer
shareNoteSave(r, notifyThrows) ==
  /\ BagIn(r, req)
  /\ r.pc = "shrSave"
  /\ IF SaveThrows(r.id, r)
       THEN /\ resp' = [Response("shareNote", 500, r.user, r.id) EXCEPT !.target = r.target]
            /\ UNCHANGED notes
       ELSE /\ notes' = [notes EXCEPT ![r.id] = Save(@, r)]
            /\ resp' = [Response("shareNote", IF notifyThrows THEN 500 ELSE 200, r.user, r.id)
                          EXCEPT !.persisted = TRUE,
                                 !.target = r.target,
                                 !.perm = r.permission,
                                 !.notified = ~notifyThrows,
                                 !.notifyFailed = notifyThrows,
                                 !.excluded = r.target]
  /\ req' = req (-) SetToBag({r})
  /\ UNCHANGED <<nextId, now, listVars, dashboard>>

(* ------------------------- specifications ------------------------------ *)
\* Every operation of the controller, the requests drawn from the given sets
Requests(titles, contents, emails, permissions) ==
  \/ \E u \in Users, id \in NoteIds : getNote(u, id)
  \/ \E u \in Creators, title \in {Undefined, "t1"} : createNote(u, title, "c1")
  \/ \E u \in Users, id \in NoteIds, title \in titles, content \in contents :
       updateNoteRead(u, id, title, content)
  \/ \E r \in BagToSet(req), notifyThrows \in NotifyThrows : updateNoteWrite(r, notifyThrows)
  \/ \E u \in Users, id \in NoteIds : deleteNoteRead(u, id)
  \/ \E r \in BagToSet(req) : deleteNoteWrite(r)
  \/ \E u \in Users, id \in NoteIds, email \in emails, permission \in permissions :
       shareNoteInvalid(u, id, email, permission)
  \/ \E u \in Users, id \in NoteIds, email \in emails, permission \in permissions :
       shareNoteRead(u, id, email, permission)
  \/ \E r \in BagToSet(req), notifyThrows \in NotifyThrows : shareNoteSave(r, notifyThrows)

\* Sharing and access control: every email and permission, title-only updates,
\* all requests within one tick of the clock
Next == Requests(TitleInputs, {Undefined}, Emails, PermissionInputs)

Spec == Init /\ [][Next]_vars

\* Updates: every combination of supplied fields and a running clock, the note
\* shared with one user
NextUpdate ==
  \/ Tick
  \/ Requests(TitleInputs, ContentInputs, {"b@x"}, PermissionInputs)

SpecUpdate == Init /\ [][NextUpdate]_vars

(* ------------------------------ listing -------------------------------- *)
\* parseInt(req.query.page) || 1 and parseInt(req.query.limit) || 10: a value
\* that parses to 0 (or does not parse) gives the default
DefaultPage == 1
DefaultLimit == 10
ParsePage(raw) == IF raw = 0 THEN DefaultPage ELSE raw
ParseLimit(raw) == IF raw = 0 THEN DefaultLimit ELSE raw

\* the query: { $or: [{createdBy}, {'collaborators.userId'}], isArchived }
Matching(u, showArchived) ==
  {id \in DOMAIN notes :
     /\ notes[id].createdBy = u \/ \E i \in 1..Len(notes[id].collaborators) :
                                     notes[id].collaborators[i].userId = u
     /\ notes[id].isArchived = showArchived}

\* Math.ceil(totalNotes / limit)
Ceil(n, d) == (n + d - 1) \div d

\* .sort({ lastUpdated: -1 }): the store orders documents of equal lastUpdated
\* as it pleases, and anew for each query
SortedOrders(S) ==
  {o \in [1..Cardinality(S) -> S] :
     /\ \A i, j \in 1..Cardinality(S) : i # j => o[i] # o[j]
     /\ \A i, j \in 1..Cardinality(S) : i < j => notes[o[i]].lastUpdated >= notes[o[j]].lastUpdated}

\* .skip(n).limit(k) of an ordered result
Slice(o, n, k) ==
  IF n >= Len(o) THEN <<>>
  ELSE SubSeq(o, n + 1, IF n + k <= Len(o) THEN n + k ELSE Len(o))

Pagination(page, totalPages, totalNotes, hasNextPage, hasPrevPage) ==
  [currentPage |-> page, totalPages |-> totalPages, totalNotes |-> totalNotes,
   hasNextPage |-> hasNextPage, hasPrevPage |-> hasPrevPage]

\* getNotes for the listing under way; the three reads see one snapshot
getNotes(rawPage) ==
  LET page  == ParsePage(rawPage)
      limit == ParseLimit(query.limit)
      found == Matching(query.user, query.showArchived)
      hasNotes == found # {}
      totalNotes == Cardinality(found)
      totalPages == IF Ceil(totalNotes, limit) = 0 THEN 1 ELSE Ceil(totalNotes, limit)
  IN  /\ IF ~hasNotes /\ page = 1
           THEN pages' = (page :> [notes |-> <<>>, pagination |-> Pagination(1, 0, 0, FALSE, FALSE)])
                           @@ pages
           ELSE \E o \in SortedOrders(found) :
                  pages' = (page :> [notes |-> Slice(o, (page - 1) * limit, limit),
                                     pagination |-> Pagination(page, totalPages, totalNotes,
                                                               page < totalPages, page > 1)])
                             @@ pages
      /\ UNCHANGED <<notes, nextId, now, req, resp, query, dashboard>>

\* the stores listed: every note owned by A, or owned by B and either private
\* or shared with A; the clock has few values, so timestamps repeat
ListedNotes ==
  {NewNote("A", "t1", "c1", t) : t \in 0..MaxTime}
  \cup
  {[NewNote("B", "t1", "c1", t) EXCEPT !.collaborators = c, !.v = Len(c)] :
     c \in {<<>>, <<[userId |-> "A", permission |-> "read"]>>}, t \in 0..MaxTime}

InitList ==
  /\ \E n \in 0..MaxListNotes : notes \in [1..n -> ListedNotes]
  /\ nextId = Len(notes) + 1
  /\ now = MaxTime
  /\ req = EmptyBag
  /\ resp = NoResp
  /\ query \in [user : Users, limit : 0..MaxLimit, showArchived : BOOLEAN]
  /\ pages = <<>>
  /\ dashboard = DashboardState

NextList == \E rawPage \in 0..MaxPage : getNotes(rawPage)

SpecList == InitList /\ [][NextList]_vars

(* ----------------------------- dashboard ------------------------------- *)
\* the titles a create request may carry: none, empty, blank, padded, plain
CreateTitles == {Undefined, "", "  ", " t1", "t1"}
\* what the user types into the create form
FormTitles == CreateTitles \ {Undefined}
FormContents == {"", "c1"}

\* fetchNotes up to its await: the guard, the two flags, the request for the
\* page of the render it was called in
fetchNotes(d) ==
  IF d.loading \/ d.isFetching THEN d
  ELSE [d EXCEPT !.isFetching = TRUE, !.loading = TRUE,
                 !.fetches = @ (+) SetToBag({d.page})]

\* the condition of the effect, for a logged-in user
shouldFetchNotes(d) ==
  /\ ~d.loading
  /\ ~d.isFetching
  /\ (~d.initialFetchDone \/ d.page > 1)

\* the effect with dependencies [user, page], run after the render that
\* changed one of them, with the values of that render
useEffect(d) ==
  IF shouldFetchNotes(d) THEN [fetchNotes(d) EXCEPT !.initialFetchDone = TRUE] ELSE d

\* the Dashboard is mounted: the first render and its effects
mount ==
  /\ ~dashboard.mounted
  /\ dashboard' = useEffect([dashboard EXCEPT !.mounted = TRUE])
  /\ resp' = NoResp
  /\ UNCHANGED <<notes, nextId, now, req, listVars>>

\* the callback of setTimeout(..., 500)
setPageLoading ==
  /\ dashboard.mounted
  /\ dashboard.pageLoading
  /\ dashboard' = [dashboard EXCEPT !.pageLoading = FALSE]
  /\ resp' = NoResp
  /\ UNCHANGED <<notes, nextId, now, req, listVars>>

\* the server's side of a fetch in flight
getNotesRequested ==
  \E p \in 1..MaxPage :
    /\ BagIn(p, dashboard.fetches (+) dashboard.orphaned)
    /\ p \notin DOMAIN pages
    /\ getNotes(p)

\* fetchNotes after its await: setNotes, setPagination and the finally block
fetchNotesDone ==
  \E p \in DOMAIN pages :
    /\ BagIn(p, dashboard.fetches)
    /\ dashboard' = [dashboard EXCEPT
                       !.notes = pages[p].notes,
                       !.pagination = pages[p].pagination,
                       !.loading = FALSE,
                       !.isFetching = FALSE,
                       !.fetches = @ (-) SetToBag({p})]
    /\ pages' = [q \in DOMAIN pages \ {p} |-> pages[q]]
    /\ resp' = NoResp
    /\ UNCHANGED <<notes, nextId, now, req, query>>

\* the same in an instance that was unmounted during the await: the notes
\* slice outlives the component and takes setNotes and setLoading, the state
\* setters of the old instance do nothing
fetchNotesDoneUnmounted ==
  \E p \in DOMAIN pages :
    /\ BagIn(p, dashboard.orphaned)
    /\ dashboard' = [dashboard EXCEPT
                       !.notes = pages[p].notes,
                       !.loading = FALSE,
                       !.orphaned = @ (-) SetToBag({p})]
    /\ pages' = [q \in DOMAIN pages \ {p} |-> pages[q]]
    /\ resp' = NoResp
    /\ UNCHANGED <<notes, nextId, now, req, query>>

\* setPage: a render and its effects when the value changes, nothing otherwise
setPage(d, p) == IF p = d.page THEN d ELSE useEffect([d EXCEPT !.page = p])

\* the pagination controls are rendered
PaginationShown(d) ==
  /\ d.mounted
  /\ ~d.pageLoading
  /\ ~d.loading
  /\ Len(d.notes) > 0
  /\ d.pagination # NoPagination
  /\ d.pagination.totalPages > 1

\* a click on Previous: setPage(p => Math.max(1, p - 1))
clickPrevious ==
  /\ PaginationShown(dashboard)
  /\ dashboard.pagination.hasPrevPage
  /\ dashboard' = setPage(dashboard, IF dashboard.page - 1 > 1 THEN dashboard.page - 1 ELSE 1)
  /\ resp' = NoResp
  /\ UNCHANGED <<notes, nextId, now, req, listVars>>

\* a click on Next: setPage(p => p + 1)
clickNext ==
  /\ PaginationShown(dashboard)
  /\ dashboard.pagination.hasNextPage
  /\ dashboard.page < MaxPage
  /\ dashboard' = setPage(dashboard, dashboard.page + 1)
  /\ resp' = NoResp
  /\ UNCHANGED <<notes, nextId, now, req, listVars>>

\* handleCreateNote up to its await: a title that trims to nothing is refused
\* with a toast and no request is made
handleCreateNote(title, content) ==
  /\ dashboard.mounted
  /\ ~dashboard.pageLoading
  /\ ~dashboard.isSubmitting
  /\ dashboard' =
       IF Trim(title) = ""
         THEN [dashboard EXCEPT !.toast = "Title is required"]
         ELSE [dashboard EXCEPT !.isSubmitting = TRUE,
                 !.newNote = [title |-> title,
                              content |-> IF content = "" THEN "New note" ELSE content]]
  /\ resp' = NoResp
  /\ UNCHANGED <<notes, nextId, now, req, listVars>>

\* handleCreateNote after its await: the server's createNote, then addNote and
\* navigate (which unmounts the Dashboard), or the error toast
handleCreateNoteDone ==
  /\ dashboard.isSubmitting
  /\ createNoteSave(query.user, dashboard.newNote.title, dashboard.newNote.content)
  /\ dashboard' =
       IF resp'.status = 201
         THEN [DashboardState EXCEPT
                 !.notes = <<resp'.id>> \o dashboard.notes,
                 !.loading = dashboard.loading,
                 !.orphaned = dashboard.orphaned (+) dashboard.fetches,
                 !.toast = "Note created successfully"]
         ELSE [dashboard EXCEPT !.isSubmitting = FALSE,
                 !.newNote = DashboardState.newNote,
                 !.toast = "Error creating note"]
  /\ UNCHANGED <<now, req, listVars>>

\* the Dashboard of one user over a store, and other clients creating notes
InitDashboard ==
  /\ \E n \in 0..MaxListNotes : notes \in [1..n -> ListedNotes]
  /\ nextId = Len(notes) + 1
  /\ now = MaxTime
  /\ req = EmptyBag
  /\ resp = NoResp
  /\ query \in [user : Creators, limit : 1..MaxLimit, showArchived : {FALSE}]
  /\ pages = <<>>
  /\ dashboard = DashboardState

NextDashboard ==
  \/ mount
  \/ setPageLoading
  \/ getNotesRequested
  \/ fetchNotesDone
  \/ fetchNotesDoneUnmounted
  \/ clickPrevious
  \/ clickNext
  \/ \E title \in FormTitles, content \in FormContents : handleCreateNote(title, content)
  \/ handleCreateNoteDone
  \/ \E u \in Creators, title \in CreateTitles : createNote(u, title, "c1")

SpecDashboard == InitDashboard /\ [][NextDashboard]_vars

(* ------------------------------ claims --------------------------------- *)
\* what the step from the unprimed to the primed state did to the bag of handlers
Started(r) == CopiesIn(r, req') = CopiesIn(r, req) + 1
Finished(r) == BagIn(r, req) /\ CopiesIn(r, req') = CopiesIn(r, req) - 1

\* the users listed in a note's collaborators, with any permission / with write
Listed(note) == {note.collaborators[i].userId : i \in 1..Len(note.collaborators)}
ListedWrite(note) ==
  {note.collaborators[i].userId :
     i \in {j \in 1..Len(note.collaborators) : note.collaborators[j].permission = "write"}}

\* C1: a getNote of an existing note answers 200 iff the requester is the owner
\* or is listed as a collaborator, and 403 otherwise; it answers 404 iff the id
\* does not resolve.
C1_GetNoteAccess ==
  resp.op = "getNote" =>
    /\ resp.status = 404 <=> ~Exists(resp.id)
    /\ Exists(resp.id) =>
         /\ resp.status = 200 <=>
              (notes[resp.id].createdBy = resp.user \/ resp.user \in Listed(notes[resp.id]))
         /\ resp.status # 200 => resp.status = 403

\* a user who is neither owner nor collaborator of a shared note was answered 403
C1_Witness ==
  /\ resp.op = "getNote" /\ resp.status = 403
  /\ Exists(resp.id) /\ Listed(notes[resp.id]) # {}

\* the owner, or a user with a collaborator entry whose permission is write
C2_MayWrite(note, u) == note.createdBy = u \/ u \in ListedWrite(note)

\* C2: an updateNote of an existing note is accepted and applied iff the
\* requester is the owner or has a collaborator entry with permission write;
\* anyone else is answered 403, the store unchanged and nothing notified.
C2_UpdateAccess ==
  [][ /\ (resp'.op = "updateNote" /\ resp'.status = 403) =>
           /\ Exists(resp'.id)
           /\ ~C2_MayWrite(notes[resp'.id], resp'.user)
           /\ notes' = notes
           /\ ~resp'.notified
      /\ \A r \in BagToSet(req') :
           (r.pc = "updWrite" /\ Started(r)) => C2_MayWrite(notes[r.id], r.user)
      /\ \A r \in BagToSet(req) :
           (r.pc = "updWrite" /\ Finished(r) /\ Exists(r.id)) =>
              notes'[r.id].lastUpdated = r.ts /\ resp'.persisted
    ]_vars

\* C3: a deleteNote of an existing note goes through iff the requester is the
\* owner, and then removes the note and answers 200; any other user, a write
\* collaborator included, is answered 403 and the store is unchanged.
C3_DeleteOwnerOnly ==
  [][ /\ resp'.op = "deleteNote" => resp'.status \in {200, 403, 404}
      /\ (resp'.op = "deleteNote" /\ resp'.status = 403) =>
           /\ Exists(resp'.id)
           /\ notes[resp'.id].createdBy # resp'.user
           /\ notes' = notes
      /\ (resp'.op = "deleteNote" /\ resp'.status = 404) =>
           ~Exists(resp'.id) /\ notes' = notes
      /\ \A r \in BagToSet(req') :
           (r.pc = "delWrite" /\ Started(r)) =>
              Exists(r.id) /\ notes[r.id].createdBy = r.user /\ notes' = notes
      /\ \A r \in BagToSet(req) :
           (r.pc = "delWrite" /\ Finished(r)) =>
              /\ Exists(r.id) => notes[r.id].createdBy = r.user
              /\ r.id \notin DOMAIN notes'
              /\ resp'.op = "deleteNote" /\ resp'.status = 200 /\ resp'.user = r.user
      /\ (resp'.op = "deleteNote" /\ resp'.status = 200) =>
           \E r \in BagToSet(req) : r.pc = "delWrite" /\ Finished(r) /\ r.user = resp'.user
    ]_vars

\* a collaborator with write permission was refused the deletion
C3_Witness ==
  /\ resp.op = "deleteNote" /\ resp.status = 403
  /\ Exists(resp.id) /\ resp.user \in ListedWrite(notes[resp.id])

\* the positions of a user's entries in a note's collaborators
C4_EntriesOf(note, u) == {i \in 1..Len(note.collaborators) : note.collaborators[i].userId = u}

\* C4: a user id appears at most once in a note's collaborators; a share that
\* is answered 200 leaves exactly one entry for the target user, carrying the
\* permission just granted, and does not lengthen the list when the target
\* already had an entry.
C4_UniqueCollaborators ==
  /\ [](\A id \in DOMAIN notes : \A u \in Users : Cardinality(C4_EntriesOf(notes[id], u)) <= 1)
  /\ [][ (resp'.op = "shareNote" /\ resp'.status = 200) =>
           /\ Cardinality(C4_EntriesOf(notes'[resp'.id], resp'.target)) = 1
           /\ \A i \in C4_EntriesOf(notes'[resp'.id], resp'.target) :
                notes'[resp'.id].collaborators[i].permission = resp'.perm
           /\ C4_EntriesOf(notes[resp'.id], resp'.target) # {} =>
                Len(notes'[resp'.id].collaborators) = Len(notes[resp'.id].collaborators)
       ]_vars

\* C5: the owner of a note is never listed among its collaborators.
C5_OwnerNotCollaborator ==
  \A id \in DOMAIN notes : notes[id].createdBy \notin Listed(notes[id])

\* C6: the notification of a share reaches the user just granted access when
\* that user is watching, and reaches no other collaborator of the note.
C6_ShareNotifiesTargetOnly ==
  (resp.op = "shareNote" /\ resp.notified /\ Exists(resp.id)) =>
    \A watchers \in SUBSET Users :
      /\ resp.target \in watchers =>
           resp.target \in notifyCollaborators(watchers, resp.excluded)
      /\ \A c \in Listed(notes[resp.id]) \ {resp.target} :
           c \notin notifyCollaborators(watchers, resp.excluded)

\* C7: an updateNote or shareNote that has persisted its change answers 200
\* also when the notification call fails.
C7_NotifyFailureSwallowed ==
  (resp.op \in {"updateNote", "shareNote"} /\ resp.persisted /\ resp.notifyFailed) =>
    resp.status = 200

\* C10: an update answered 200 sets exactly the supplied fields and stamps
\* lastUpdated with the time of the update, whatever the values; no updateNote
\* step changes the owner, the collaborators or any other note.
C10_UpdateFrame ==
  [][ /\ \A r \in BagToSet(req) :
           (r.pc = "updWrite" /\ Finished(r) /\ resp'.status = 200) =>
              /\ notes'[r.id].title   = IF r.title = Undefined THEN notes[r.id].title ELSE r.title
              /\ notes'[r.id].content = IF r.content = Undefined THEN notes[r.id].content ELSE r.content
              /\ notes'[r.id].lastUpdated = r.ts
              /\ notes'[r.id].isArchived = notes[r.id].isArchived
      /\ resp'.op = "updateNote" =>
           /\ DOMAIN notes' = DOMAIN notes
           /\ \A id \in DOMAIN notes :
                /\ notes'[id].createdBy = notes[id].createdBy
                /\ notes'[id].collaborators = notes[id].collaborators
                /\ id # resp'.id => notes'[id] = notes[id]
    ]_vars

\* an update that supplied only the content was answered 200: the title is the
\* one the note was created with, the content and lastUpdated are new
C10_Witness ==
  /\ resp.op = "updateNote" /\ resp.status = 200
  /\ Exists(resp.id)
  /\ notes[resp.id].title = "t1" /\ notes[resp.id].content = "c2"
  /\ notes[resp.id].lastUpdated = MaxTime

\* C8: a user with no matching note gets the zero-page shape on every page.
C8_ZeroPageShape ==
  \A p \in DOMAIN pages :
    Matching(query.user, query.showArchived) = {} =>
      /\ pages[p].notes = <<>>
      /\ pages[p].pagination.totalPages = 0
      /\ pages[p].pagination.totalNotes = 0
      /\ ~pages[p].pagination.hasNextPage
      /\ ~pages[p].pagination.hasPrevPage

\* the notes of pages 1..n, in page order
RECURSIVE C9_Concat(_)
C9_Concat(n) == IF n = 0 THEN <<>> ELSE C9_Concat(n - 1) \o pages[n].notes

\* C9: once pages 1..totalPages of a listing are in, they hold every matching
\* note exactly once and no other, in descending lastUpdated order across the
\* pages, with hasNextPage exactly below the last page and hasPrevPage exactly
\* above the first.
C9_PagesPartition ==
  (1 \in DOMAIN pages /\ \A p \in 1..pages[1].pagination.totalPages : p \in DOMAIN pages) =>
    LET totalPages == pages[1].pagination.totalPages
        all == C9_Concat(totalPages)
        expected == {id \in DOMAIN notes :
                       /\ notes[id].createdBy = query.user \/ query.user \in Listed(notes[id])
                       /\ notes[id].isArchived = query.showArchived}
    IN  /\ Len(all) = Cardinality(expected)
        /\ {all[i] : i \in 1..Len(all)} = expected
        /\ \A i, j \in 1..Len(all) : i < j => notes[all[i]].lastUpdated >= notes[all[j]].lastUpdated
        /\ \A p \in 1..totalPages :
             /\ pages[p].pagination.hasNextPage <=> p < totalPages
             /\ pages[p].pagination.hasPrevPage <=> p > 1

\* a title that is present and not empty after trimming
C11_Titled(title) == title # Undefined /\ Trim(title) # ""

\* C11: a createNote whose title is missing or empty after trimming is answered
\* with the validation status 400, not 500, and stores no note; a create the
\* Dashboard refuses for its title sends no request and stores no note.
C11_CreateValidation ==
  [][ /\ (resp'.op = "createNote" /\ ~C11_Titled(resp'.title)) =>
           /\ resp'.status = 400
           /\ notes' = notes
      /\ (dashboard'.toast # dashboard.toast /\ dashboard'.toast = "Title is required") =>
           /\ notes' = notes
           /\ ~dashboard'.isSubmitting
    ]_vars

\* C12: an updateNote that reaches its write after the note was deleted
\* answers 404 and leaves the store as it is, and every getNote or updateNote
\* answered while the id does not resolve answers 404 and does not bring the
\* note back.
C12_UpdateDeleteRace ==
  [][ /\ \A r \in BagToSet(req) :
           (r.pc = "updWrite" /\ Finished(r) /\ ~Exists(r.id)) =>
              /\ resp'.op = "updateNote" /\ resp'.status = 404
              /\ notes' = notes
      /\ (resp'.op \in {"getNote", "updateNote"} /\ ~Exists(resp'.id)) =>
           /\ resp'.status = 404
           /\ resp'.id \notin DOMAIN notes'
    ]_vars

\* C13: in the mounted Dashboard every change of the page number starts a
\* fetch of the new page; when no fetch is in flight the pagination shown is
\* that of the current page number; and at most one notes fetch is in flight.
C13_PageChangeFetches ==
  /\ [](BagCardinality(dashboard.fetches (+) dashboard.orphaned) <= 1)
  /\ []((/\ dashboard.mounted
         /\ dashboard.fetches (+) dashboard.orphaned = EmptyBag
         /\ dashboard.pagination # NoPagination)
          => dashboard.pagination.currentPage = dashboard.page)
  /\ [][ (dashboard.mounted /\ dashboard'.mounted /\ dashboard'.page # dashboard.page) =>
           BagIn(dashboard'.page, dashboard'.fetches)
       ]_vars
====
